---- MODULE Spec2Model ----
(***************************************************************************)
(* Model of sqlite2es.py: the SQLite -> Elasticsearch batch pipeline.      *)
(*                                                                         *)
(* Representation of Python values                                         *)
(*   str            a sequence of one-character strings, <<"N","/","A">>   *)
(*   None / value   an optional is a sequence of length 0 (None) or 1      *)
(*   list           a sequence                                             *)
(*   dict           a record, or a function from keys to values            *)
(*   float          [mant |-> m, scale |-> k], the number m / 10^k with    *)
(*                  trailing fractional zeros removed                      *)
(*   raise          a result record with ok = FALSE and the exception name *)
(* Strings the program only passes along or uses as dictionary keys (movie *)
(* ids, titles, writer ids, JSON keys) are atomic TLA+ strings.  The JSON  *)
(* text of the writers column is a sequence of JSON tokens.                *)
(***************************************************************************)
EXTENDS Naturals, Sequences, FiniteSets, TLC

VARIABLES
    conn,        \* the sqlite3 connection: "none", "open" or "closed"
    pc,          \* position of main(): see PcValues
    table,       \* result of SELECT DISTINCT id, name FROM writers
    movies,      \* result of ETL.SQL, one joined row per movie
    writers,     \* ETL.load's local `writers` (the directory)
    records,     \* ETL.load's local `records`
    request,     \* the bodies POSTed to <url>/_bulk, in order
    response,    \* what requests.post returned, once it has
    log,         \* the messages passed to logger.error, in order
    trace        \* the calls made so far, in order (history)

vars == <<conn, pc, table, movies, writers, records, request, response, log, trace>>

----------------------------------------------------------------------------
(* Bounds of the model.                                                    *)

MaxRows == 2          \* movies per database
MaxTable == 2         \* rows of the writers table
MaxWriters == 3       \* entries of one row's writers array
MaxActors == 2        \* comma-separated elements of an actors column
MaxParts == 2         \* comma-separated elements of genre / director
MaxRatingLen == 3     \* characters of an imdb_rating string
MaxItems == 3         \* items of a bulk response

----------------------------------------------------------------------------
(* Python values.                                                          *)

None == << >>
Some(x) == <<x>>

\* the literal 'N/A' of _transform_row
Sentinel == <<"N", "/", "A">>

\* the characters str.strip() removes (those the model's alphabets contain)
Whitespace == {" ", "\t"}

RECURSIVE Join(_, _)
\* sep.join(parts)
Join(sep, parts) ==
    IF parts = << >> THEN << >>
    ELSE IF Len(parts) = 1 THEN parts[1]
    ELSE parts[1] \o sep \o Join(sep, Tail(parts))

RECURSIVE Split(_, _)
\* s.split(c) for a one-character separator: always at least one element
Split(s, c) ==
    IF \A i \in 1..Len(s) : s[i] # c THEN <<s>>
    ELSE LET i == CHOOSE j \in 1..Len(s) :
                      s[j] = c /\ \A k \in 1..(j - 1) : s[k] # c
         IN  <<SubSeq(s, 1, i - 1)>> \o Split(SubSeq(s, i + 1, Len(s)), c)

RECURSIVE Strip(_)
\* s.strip()
Strip(s) ==
    IF s = << >> THEN s
    ELSE IF s[1] \in Whitespace THEN Strip(Tail(s))
    ELSE IF s[Len(s)] \in Whitespace THEN Strip(SubSeq(s, 1, Len(s) - 1))
    ELSE s

\* s.replace(' ', '')
ReplaceSpace(s) == SelectSeq(s, LAMBDA ch : ch # " ")

\* zip(xs, ys): stops at the shorter
Zip(xs, ys) ==
    LET n == IF Len(xs) < Len(ys) THEN Len(xs) ELSE Len(ys)
    IN  [i \in 1..n |-> <<xs[i], ys[i]>>]

----------------------------------------------------------------------------
(* json.loads on the writers column.  The text is a sequence of tokens:    *)
(* punctuation, the literals null, true and false, numbers JNum(n) and     *)
(* string literals JStr(s).  A parsed value carries its Python type:       *)
(* [t |-> "list" | "dict" | "str" | "num" | "bool" | "null", v |-> ...].   *)

LBracket == <<"[">>
RBracket == <<"]">>
LBrace == <<"{">>
RBrace == <<"}">>
Comma == <<",">>
Colon == <<":">>
JNull == <<"null">>
JTrue == <<"true">>
JFalse == <<"false">>
JStr(s) == <<"\"", s>>
JNum(n) == <<"#", n>>
IsJStr(tok) == Len(tok) = 2 /\ tok[1] = "\""
IsJNum(tok) == Len(tok) = 2 /\ tok[1] = "#"

PyValue(type, value) == [t |-> type, v |-> value]

JsonFail == [ok |-> FALSE, fault |-> "JSONDecodeError"]

\* the empty dict {}
EmptyDict == [k \in {} |-> None]

RECURSIVE ParseValue(_, _)
RECURSIVE ParseElements(_, _, _)
RECURSIVE ParseMembers(_, _, _)

\* the value starting at token i, and the position after it
ParseValue(toks, i) ==
    IF i > Len(toks) THEN JsonFail
    ELSE IF IsJStr(toks[i])
    THEN [ok |-> TRUE, val |-> PyValue("str", toks[i][2]), next |-> i + 1]
    ELSE IF IsJNum(toks[i])
    THEN [ok |-> TRUE, val |-> PyValue("num", toks[i][2]), next |-> i + 1]
    ELSE IF toks[i] = JNull
    THEN [ok |-> TRUE, val |-> PyValue("null", None), next |-> i + 1]
    ELSE IF toks[i] = JTrue
    THEN [ok |-> TRUE, val |-> PyValue("bool", TRUE), next |-> i + 1]
    ELSE IF toks[i] = JFalse
    THEN [ok |-> TRUE, val |-> PyValue("bool", FALSE), next |-> i + 1]
    ELSE IF toks[i] = LBracket
    THEN IF i + 1 <= Len(toks) /\ toks[i + 1] = RBracket
         THEN [ok |-> TRUE, val |-> PyValue("list", << >>), next |-> i + 2]
         ELSE ParseElements(toks, i + 1, << >>)
    ELSE IF toks[i] = LBrace
    THEN IF i + 1 <= Len(toks) /\ toks[i + 1] = RBrace
         THEN [ok |-> TRUE, val |-> PyValue("dict", EmptyDict), next |-> i + 2]
         ELSE ParseMembers(toks, i + 1, EmptyDict)
    ELSE JsonFail

\* the elements of an array from token i on, up to and including "]"
ParseElements(toks, i, acc) ==
    LET e == ParseValue(toks, i)
    IN  IF ~e.ok THEN JsonFail
        ELSE IF e.next > Len(toks) THEN JsonFail
        ELSE IF toks[e.next] = Comma
        THEN ParseElements(toks, e.next + 1, Append(acc, e.val))
        ELSE IF toks[e.next] = RBracket
        THEN [ok |-> TRUE, val |-> PyValue("list", Append(acc, e.val)),
              next |-> e.next + 1]
        ELSE JsonFail

\* the members of an object from token i on, up to and including "}";
\* a repeated key keeps its last value
ParseMembers(toks, i, acc) ==
    IF i + 1 > Len(toks) THEN JsonFail
    ELSE IF IsJStr(toks[i]) /\ toks[i + 1] = Colon
    THEN LET m == ParseValue(toks, i + 2)
         IN  IF ~m.ok THEN JsonFail
             ELSE IF m.next > Len(toks) THEN JsonFail
             ELSE LET k == toks[i][2]
                      acc2 == [x \in (DOMAIN acc) \cup {k} |->
                                  IF x = k THEN m.val ELSE acc[x]]
                  IN  IF toks[m.next] = Comma
                      THEN ParseMembers(toks, m.next + 1, acc2)
                      ELSE IF toks[m.next] = RBrace
                      THEN [ok |-> TRUE, val |-> PyValue("dict", acc2),
                            next |-> m.next + 1]
                      ELSE JsonFail
    ELSE JsonFail

\* json.loads(text): the value, or JSONDecodeError when the text is not one
\* JSON value
JsonLoads(toks) ==
    LET r == ParseValue(toks, 1)
    IN  IF r.ok /\ r.next = Len(toks) + 1
        THEN [ok |-> TRUE, val |-> r.val]
        ELSE JsonFail

\* the text the CASE of ETL.SQL yields for a stored list of writer ids:
\* [{"id": "w1"}, {"id": "w2"}]
WritersText(ids) ==
    <<LBracket>>
    \o Join(<<Comma>>,
            [i \in 1..Len(ids) |-> <<LBrace, JStr("id"), Colon, JStr(ids[i]), RBrace>>])
    \o <<RBracket>>

----------------------------------------------------------------------------
(* float(s), for strings over digits, '.' and whitespace.                  *)

DigitChars == <<"0", "1", "2", "3", "4", "5", "6", "7", "8", "9">>
Digits == {DigitChars[i] : i \in 1..10}
DigitVal(ch) == (CHOOSE i \in 1..10 : DigitChars[i] = ch) - 1

RECURSIVE ToNat(_)
ToNat(ds) == IF ds = << >> THEN 0
             ELSE 10 * ToNat(SubSeq(ds, 1, Len(ds) - 1)) + DigitVal(ds[Len(ds)])

RECURSIVE DropTrailingZeros(_)
DropTrailingZeros(ds) ==
    IF ds # << >> /\ ds[Len(ds)] = "0"
    THEN DropTrailingZeros(SubSeq(ds, 1, Len(ds) - 1))
    ELSE ds

ParseFloat(s) ==
    LET t == Strip(s)
        parts == Split(t, ".")
        int == parts[1]
        frac == IF Len(parts) = 2 THEN DropTrailingZeros(parts[2]) ELSE << >>
        wellFormed ==
            /\ Len(parts) <= 2
            /\ \A i \in 1..Len(t) : t[i] \in Digits \cup {"."}
            /\ \E i \in 1..Len(t) : t[i] \in Digits
    IN  IF wellFormed
        THEN [ok |-> TRUE, val |-> [mant |-> ToNat(int \o frac), scale |-> Len(frac)]]
        ELSE [ok |-> FALSE, fault |-> "ValueError"]

----------------------------------------------------------------------------
(* ETL.load_writers_names and ETL._transform_row.                          *)

RECURSIVE LoadWritersNames(_)
\* writers = {}; for writer in <query result>: writers[writer['id']] = writer
LoadWritersNames(tbl) ==
    IF tbl = << >> THEN EmptyDict
    ELSE LET before == LoadWritersNames(SubSeq(tbl, 1, Len(tbl) - 1))
             w == tbl[Len(tbl)]
         IN  [x \in (DOMAIN before) \cup {w.id} |-> IF x = w.id THEN w ELSE before[x]]

\* variant of the test of line 147 without the writers_set test
KeepWriterNoDedup(name, writer_id, writers_set) == name # Sentinel

\* the test of line 147, once writers[writer_id] has been found
KeepWriter(name, writer_id, writers_set) ==
    name # Sentinel /\ writer_id \notin writers_set

TypeError == [ok |-> FALSE, fault |-> "TypeError"]
KeyError == [ok |-> FALSE, fault |-> "KeyError"]
AttributeError == [ok |-> FALSE, fault |-> "AttributeError"]

\* lines 146-147 up to the look-up writers[writer_id], for one item of the
\* loop: the fault raised, or the writer id found in the directory.
\*   writer['id']        TypeError unless writer is a dict, KeyError
\*                       when it has no 'id'
\*   writers[writer_id]  TypeError for an unhashable id (list, dict),
\*                       KeyError for an id that is no key
LookUp(writer, directory) ==
    IF writer.t # "dict" THEN TypeError
    ELSE IF "id" \notin DOMAIN writer.v THEN KeyError
    ELSE LET writer_id == writer.v["id"]
         IN  IF writer_id.t \in {"list", "dict"} THEN TypeError
             ELSE IF writer_id.t # "str" THEN KeyError
             ELSE IF writer_id.v \notin DOMAIN directory THEN KeyError
             ELSE [ok |-> TRUE, id |-> writer_id.v]

RECURSIVE WritersLoopSkipUnknown(_, _, _, _)
\* variant of the loop that looks the writer up with writers.get(writer_id)
\* and skips the entry when it is missing
WritersLoopSkipUnknown(entries, directory, movie_writers, writers_set) ==
    IF entries = << >> THEN [ok |-> TRUE, val |-> movie_writers]
    ELSE LET found == LookUp(Head(entries), directory)
         IN  IF ~found.ok /\ found.fault = "TypeError" THEN found
             ELSE IF found.ok /\ KeepWriter(directory[found.id].name, found.id, writers_set)
             THEN WritersLoopSkipUnknown(Tail(entries), directory,
                      Append(movie_writers, directory[found.id]),
                      writers_set \cup {found.id})
             ELSE WritersLoopSkipUnknown(Tail(entries), directory,
                      movie_writers, writers_set)

RECURSIVE WritersLoop(_, _, _, _)
\* the for loop of lines 145-149 over the items of a list
WritersLoop(entries, directory, movie_writers, writers_set) ==
    IF entries = << >> THEN [ok |-> TRUE, val |-> movie_writers]
    ELSE LET found == LookUp(Head(entries), directory)
         IN  IF ~found.ok THEN found
             ELSE IF KeepWriter(directory[found.id].name, found.id, writers_set)
             THEN WritersLoop(Tail(entries), directory,
                              Append(movie_writers, directory[found.id]),
                              writers_set \cup {found.id})
             ELSE WritersLoop(Tail(entries), directory,
                              movie_writers, writers_set)

\* `for writer in <value>` of line 145 for each type json.loads can return.
\* A list gives its items.  A dict gives its keys and a str its characters,
\* all of them strs, so the first one raises TypeError at writer['id'] and
\* only the empty dict and the empty str pass.  A number, a bool or None
\* is not iterable.
ForEachWriter(value, directory) ==
    IF value.t = "list" THEN WritersLoop(value.v, directory, << >>, {})
    ELSE IF value.t = "dict"
    THEN IF DOMAIN value.v = {} THEN [ok |-> TRUE, val |-> << >>] ELSE TypeError
    ELSE IF value.t = "str"
    THEN IF value.v = "" THEN [ok |-> TRUE, val |-> << >>] ELSE TypeError
    ELSE TypeError

\* lines 143-149: movie_writers, or the fault raised on the way
MovieWriters(row, directory) ==
    LET parsed == JsonLoads(row.writers)
    IN  IF ~parsed.ok THEN parsed
        ELSE ForEachWriter(parsed.val, directory)

\* lines 154-160: the list comprehension over zip(...)
ActorsOf(ids, names) ==
    LET pairs == Zip(Split(ids, ","), Split(names, ","))
        kept == SelectSeq(pairs, LAMBDA p : p[2] # Sentinel)
    IN  [i \in 1..Len(kept) |-> [id |-> kept[i][1], name |-> kept[i][2]]]

\* variant of lines 161-162 without the 'N/A' filter
ActorsNamesUnfiltered(names) == Split(names, ",")

\* lines 161-162
ActorsNamesOf(names) == SelectSeq(Split(names, ","), LAMBDA x : x # Sentinel)

\* lines 151-162: <<actors, actors_names>>
Actors(row) ==
    IF row.actors_ids # None /\ row.actors_names # None
    THEN <<ActorsOf(row.actors_ids[1], row.actors_names[1]),
           ActorsNamesOf(row.actors_names[1])>>
    ELSE << << >>, << >> >>

\* line 166: the list, or the AttributeError of None.replace
Genre(genre) ==
    IF genre = None THEN AttributeError
    ELSE [ok |-> TRUE, val |-> Split(ReplaceSpace(genre[1]), ",")]

\* variant of lines 174-176 that yields [] for 'N/A'
DirectorEmptyList(director) ==
    IF director # Some(Sentinel)
    THEN IF director = None THEN AttributeError
         ELSE LET parts == Split(director[1], ",")
              IN  [ok |-> TRUE,
                   val |-> Some([i \in 1..Len(parts) |-> Strip(parts[i])])]
    ELSE [ok |-> TRUE, val |-> Some(<< >>)]

\* lines 174-176: the list, None, or the AttributeError of None.split
Director(director) ==
    IF director # Some(Sentinel)
    THEN IF director = None THEN AttributeError
         ELSE LET parts == Split(director[1], ",")
              IN  [ok |-> TRUE,
                   val |-> Some([i \in 1..Len(parts) |-> Strip(parts[i])])]
    ELSE [ok |-> TRUE, val |-> None]

\* line 177: a NULL plot differs from 'N/A' and is passed on as it is
Description(plot) == IF plot # Some(Sentinel) THEN plot ELSE None

\* lines 171-172: the float, None, the ValueError of float() on a text or
\* the TypeError of float(None)
ImdbRating(imdb_rating) ==
    IF imdb_rating # Some(Sentinel)
    THEN IF imdb_rating = None THEN TypeError
         ELSE LET f == ParseFloat(imdb_rating[1])
              IN  IF f.ok THEN [ok |-> TRUE, val |-> Some(f.val)] ELSE f
    ELSE [ok |-> TRUE, val |-> None]

\* ETL._transform_row(row, writers): [ok |-> TRUE, doc |-> the document] or
\* [ok |-> FALSE, fault |-> the exception]
TransformRow(row, directory) ==
    LET mw == MovieWriters(row, directory)
        genre == Genre(row.genre)
        rating == ImdbRating(row.imdb_rating)
        director == Director(row.director)
    IN  IF ~mw.ok THEN [ok |-> FALSE, fault |-> mw.fault]
        ELSE IF ~genre.ok THEN [ok |-> FALSE, fault |-> genre.fault]
        ELSE IF ~rating.ok THEN [ok |-> FALSE, fault |-> rating.fault]
        ELSE IF ~director.ok THEN [ok |-> FALSE, fault |-> director.fault]
        ELSE [ok |-> TRUE,
              doc |-> [id |-> row.id,
                       genre |-> genre.val,
                       writers |-> mw.val,
                       actors |-> Actors(row)[1],
                       actors_names |-> Actors(row)[2],
                       writers_names |-> [i \in 1..Len(mw.val) |-> mw.val[i].name],
                       imdb_rating |-> rating.val,
                       title |-> row.title,
                       director |-> director.val,
                       description |-> Description(row.plot)]]

----------------------------------------------------------------------------
(* ESLoader.  The text json.dumps(x) is the one piece [json |-> x] and a   *)
(* newline is the piece NL: json.dumps never emits a raw newline, so the   *)
(* lines of a body are what lies between its NL pieces.                    *)

NL == [nl |-> TRUE]

JsonDumps(x) == <<[json |-> x]>>

\* variant of the action line that puts the index name in _id
ActionMetaWrongId(index_name, id) ==
    [k \in {"index"} |-> [j \in {"_index", "_id"} |-> index_name]]

\* {'index': {'_index': index_name, '_id': row['id']}}
ActionMeta(index_name, id) ==
    [k \in {"index"} |-> [j \in {"_index", "_id"} |->
                            IF j = "_index" THEN index_name ELSE id]]

RECURSIVE GetEsBulkQuery(_, _)
\* ESLoader._get_es_bulk_query
GetEsBulkQuery(rows, index_name) ==
    IF rows = << >> THEN << >>
    ELSE <<JsonDumps(ActionMeta(index_name, Head(rows).id)), JsonDumps(Head(rows))>>
         \o GetEsBulkQuery(Tail(rows), index_name)

\* line 57: '\n'.join(prepared_query) + '\n'
StrQuery(prepared_query) == Join(<<NL>>, prepared_query) \o <<NL>>

\* dict.get(key)
Get(d, k) == IF k \in DOMAIN d THEN d[k] ELSE None

\* `if error_message:` for a value that is None or a string
Truthy(v) == v # None /\ v[1] # << >>

RECURSIVE ExamineItemsStopAtError(_, _)
\* variant of the loop that leaves at the first error it logs
ExamineItemsStopAtError(items, logged) ==
    IF items = << >> THEN logged
    ELSE LET error_message == Get(Head(items)["index"], "error")
         IN  IF Truthy(error_message)
             THEN Append(logged, error_message[1])
             ELSE ExamineItemsStopAtError(Tail(items), logged)

RECURSIVE ExamineItems(_, _)
\* the for loop of lines 66-69: the messages logged, in order
ExamineItems(items, logged) ==
    IF items = << >> THEN logged
    ELSE LET error_message == Get(Head(items)["index"], "error")
         IN  IF Truthy(error_message)
             THEN ExamineItems(Tail(items), Append(logged, error_message[1]))
             ELSE ExamineItems(Tail(items), logged)

\* lines 59-69 for one answer of requests.post: the fault raised, or the
\* messages logged
HandleResponse(resp) ==
    IF resp.kind = "ConnectionError" THEN [ok |-> FALSE, fault |-> "ConnectionError"]
    ELSE IF resp.kind = "malformed" THEN [ok |-> FALSE, fault |-> "JSONDecodeError"]
    ELSE IF "items" \notin DOMAIN resp.json THEN [ok |-> FALSE, fault |-> "KeyError"]
    ELSE [ok |-> TRUE, val |-> ExamineItems(resp.json["items"], << >>)]

----------------------------------------------------------------------------
(* conn_context and main.                                                  *)

\* line 200: the index name main passes to load
IndexName == "movies"

\* lines 30-31 when the with-block ends normally: the generator resumes
\* after the yield and runs conn.close()
ExitNormally(c) == "closed"

\* lines 30-31 when the with-block raises: the exception is thrown into the
\* generator at the yield, which has no try/finally, so line 31 is not run
ExitOnFault(c) == c

\* variant of line 192 that puts the new document first
AccumulateFront(recs, transformed_row) == <<transformed_row>> \o recs

\* line 192
Accumulate(recs, transformed_row) == Append(recs, transformed_row)

\* the for statement of line 190 has a next row
HasNextRow(rows, recs) == Len(recs) < Len(rows)

\* the row the for statement of line 190 yields next
NextRow(rows, recs) == rows[Len(recs) + 1]

Call(name, arg) == [call |-> name, arg |-> arg]

----------------------------------------------------------------------------
(* The inputs: database contents and answers of the search service.        *)

SeqsUpTo(S, n) == UNION {[1..k -> S] : k \in 0..n}

NonEmptySeqsUpTo(S, n) == UNION {[1..k -> S] : k \in 1..n}

WriterIds == {"w1", "w2"}
WriterNames == {Sentinel, <<"J">>, <<"K">>}
TableRows == [id : WriterIds, name : WriterNames]

\* SELECT DISTINCT id, name: no row twice, in any order
Tables ==
    {t \in SeqsUpTo(TableRows, MaxTable) :
        \A i, j \in 1..Len(t) : i # j => t[i] # t[j]}

Truncations(t) == {SubSeq(t, 1, k) : k \in 0..(Len(t) - 1)}

\* texts of other shapes: [{}]  {}  ""  "w1"  {"id": "w1"}  ["w1"]  [[]]
\* [{"id": []}]  [{"id": "w1", "x": {}}]  [{"id": 1}]  [{"id": null}]  null
\* true  1  [] ]  [{"id": "w1"}, {"id": {}}]
OtherTexts ==
    { <<LBracket, LBrace, RBrace, RBracket>>,
      <<LBrace, RBrace>>,
      <<JStr("")>>,
      <<JStr("w1")>>,
      <<LBrace, JStr("id"), Colon, JStr("w1"), RBrace>>,
      <<LBracket, JStr("w1"), RBracket>>,
      <<LBracket, LBracket, RBracket, RBracket>>,
      <<LBracket, LBrace, JStr("id"), Colon, LBracket, RBracket, RBrace, RBracket>>,
      <<LBracket, LBrace, JStr("id"), Colon, JStr("w1"), Comma,
        JStr("x"), Colon, LBrace, RBrace, RBrace, RBracket>>,
      <<LBracket, LBrace, JStr("id"), Colon, JNum(1), RBrace, RBracket>>,
      <<LBracket, LBrace, JStr("id"), Colon, JNull, RBrace, RBracket>>,
      <<JNull>>,
      <<JTrue>>,
      <<JNum(1)>>,
      <<LBracket, RBracket, RBracket>>,
      <<LBracket, LBrace, JStr("id"), Colon, JStr("w1"), RBrace, Comma,
        LBrace, JStr("id"), Colon, LBrace, RBrace, RBrace, RBracket>> }

\* the writers column: well-formed arrays of ids, their truncations, and
\* texts of other shapes
WritersTexts ==
    {WritersText(l) : l \in SeqsUpTo(WriterIds, MaxWriters)}
    \cup UNION {Truncations(WritersText(<<w>>)) : w \in WriterIds}
    \cup OtherTexts

\* group_concat(...) over the linked actors: NULL, or comma-joined elements
CommaJoined(tokens, n) ==
    {Join(<<",">>, l) : l \in NonEmptySeqsUpTo(tokens, n)}
Nullable(S) == {None} \cup {Some(x) : x \in S}

ActorIdsColumns == Nullable(CommaJoined({<<"1">>, <<"2">>}, MaxActors))
ActorNamesColumns ==
    Nullable(CommaJoined({Sentinel, <<"B">>, << >>, <<"N">>}, MaxActors))

\* the columns selected as they are stored: NULL, or a text
GenreColumns ==
    Nullable(CommaJoined({<<"a">>, <<" ", "b">>, <<"\t", "c">>, <<"a", " ", "b">>},
                         MaxParts))
DirectorColumns ==
    Nullable(CommaJoined({Sentinel, <<" ">> \o Sentinel, <<"B">>, <<" ", "B", "\t">>},
                         MaxParts))
PlotColumns == Nullable({Sentinel, <<"p">>, << >>, Sentinel \o <<" ">>})
RatingColumns ==
    Nullable(SeqsUpTo({"7", ".", " "}, MaxRatingLen)
             \cup {Sentinel, <<" ">> \o Sentinel})

BaseRow ==
    [id |-> "1", genre |-> Some(<<"a">>), director |-> Some(<<"B">>),
     title |-> "T", plot |-> Some(<<"p">>), imdb_rating |-> Some(<<"7">>),
     actors_ids |-> None, actors_names |-> None,
     writers |-> WritersText(<< >>)]

\* rows that differ from BaseRow in one group of columns
WriterRows == {[BaseRow EXCEPT !.writers = w] : w \in WritersTexts}
ActorRows ==
    {[BaseRow EXCEPT !.actors_ids = i, !.actors_names = n] :
        i \in ActorIdsColumns, n \in ActorNamesColumns}
ScalarRows ==
    {[BaseRow EXCEPT !.imdb_rating = r, !.plot = p, !.director = d] :
        r \in RatingColumns, p \in PlotColumns, d \in DirectorColumns}
GenreRows == {[BaseRow EXCEPT !.genre = g] : g \in GenreColumns}

\* a few whole databases for the runs of main()
SampleTables ==
    { << >>,
      <<[id |-> "w1", name |-> <<"J">>]>>,
      <<[id |-> "w1", name |-> <<"J">>], [id |-> "w2", name |-> Sentinel]>>,
      <<[id |-> "w2", name |-> <<"K">>], [id |-> "w1", name |-> <<"J">>],
        [id |-> "w1", name |-> <<"K">>]>> }

SampleRows ==
    { [BaseRow EXCEPT !.writers = WritersText(<<"w1">>),
                      !.actors_ids = Some(<<"1", ",", "2">>),
                      !.actors_names = Some(<<"B", ",">> \o Sentinel),
                      !.imdb_rating = Some(<<"7", ".", "5">>),
                      !.director = Some(<<"B", ",", " ", "C">>),
                      !.plot = Some(Sentinel),
                      !.genre = Some(<<"a", ",", " ", "b">>)],
      [BaseRow EXCEPT !.writers = WritersText(<<"w1", "w2", "w1">>),
                      !.imdb_rating = Some(Sentinel),
                      !.director = Some(Sentinel),
                      !.plot = None],
      [BaseRow EXCEPT !.writers = WritersText(<<"w2", "w1">>),
                      !.actors_ids = Some(<<"1">>),
                      !.actors_names = Some(<<"B", ",", "C">>)],
      [BaseRow EXCEPT !.imdb_rating = Some(<<".">>)],
      [BaseRow EXCEPT !.writers = <<LBracket, LBrace>>] }

\* the movie ids are distinct: row k of the result has id k
WithIds(rows) == [k \in 1..Len(rows) |-> [rows[k] EXCEPT !.id = ToString(k)]]

Databases == {WithIds(rows) : rows \in SeqsUpTo(SampleRows, MaxRows)}

\* what requests.post can bring back
ErrorValues == {Some(<< >>), Some(<<"e">>), Some(<<"f">>)}
Items ==
    {[k \in {"index"} |-> EmptyDict]}
    \cup {[k \in {"index"} |-> [j \in {"error"} |-> e]] : e \in ErrorValues}
Responses ==
    {[kind |-> "ConnectionError", json |-> EmptyDict],
     [kind |-> "malformed", json |-> EmptyDict],
     [kind |-> "json", json |-> [k \in {"error"} |-> Some(<<"e">>)]]}
    \cup {[kind |-> "json", json |-> [k \in {"items"} |-> its]] :
            its \in SeqsUpTo(Items, MaxItems)}

----------------------------------------------------------------------------
(* The state machine.                                                      *)

PcValues == {"start", "load", "rows", "exit", "done", "faulted"}

InitCommon ==
    /\ conn = "none"
    /\ pc = "start"
    /\ writers = EmptyDict
    /\ records = << >>
    /\ request = << >>
    /\ response = None
    /\ log = << >>
    /\ trace = << >>

\* a run of main() on a sample database
Init ==
    /\ InitCommon
    /\ table \in SampleTables
    /\ movies \in Databases

\* a run on a database of one movie, for the cases of _transform_row
InitRow ==
    /\ InitCommon
    /\ \/ table \in Tables /\ movies \in {<<r>> : r \in WriterRows}
       \/ table = << >> /\ movies \in {<<r>> : r \in ActorRows}
       \/ table = << >> /\ movies \in {<<r>> : r \in ScalarRows}
       \/ table = << >> /\ movies \in {<<r>> : r \in GenreRows}

\* line 199, entering the with-block: conn_context lines 28-30
Connect ==
    /\ pc = "start"
    /\ conn' = "open"
    /\ pc' = "load"
    /\ UNCHANGED <<table, movies, writers, records, request, response, log, trace>>

\* lines 186-188
LoadWriters ==
    /\ pc = "load"
    /\ writers' = LoadWritersNames(table)
    /\ trace' = Append(trace, Call("load_writers_names", << >>))
    /\ pc' = "rows"
    /\ UNCHANGED <<conn, table, movies, records, request, response, log>>

\* one iteration of the loop of lines 190-192
TransformNext ==
    /\ pc = "rows"
    /\ HasNextRow(movies, records)
    /\ LET row == NextRow(movies, records)
           transformed == TransformRow(row, writers)
       IN  /\ trace' = Append(trace, Call("_transform_row", <<row>>))
           /\ IF transformed.ok
              THEN /\ records' = Accumulate(records, transformed.doc)
                   /\ UNCHANGED <<conn, pc>>
              ELSE /\ pc' = "faulted"
                   /\ conn' = ExitOnFault(conn)
                   /\ UNCHANGED records
    /\ UNCHANGED <<table, movies, writers, request, response, log>>

\* line 194: ESLoader.load_to_es(records, index_name)
LoadToEs ==
    /\ pc = "rows"
    /\ ~HasNextRow(movies, records)
    /\ \E resp \in Responses :
          LET outcome == HandleResponse(resp)
          IN  /\ trace' = Append(trace, Call("load_to_es", records))
              /\ request' = Append(request, StrQuery(GetEsBulkQuery(records, IndexName)))
              /\ response' = Some(resp)
              /\ IF outcome.ok
                 THEN /\ log' = log \o outcome.val
                      /\ pc' = "exit"
                      /\ UNCHANGED conn
                 ELSE /\ pc' = "faulted"
                      /\ conn' = ExitOnFault(conn)
                      /\ UNCHANGED log
    /\ UNCHANGED <<table, movies, writers, records>>

\* leaving the with-block of line 199 normally
Close ==
    /\ pc = "exit"
    /\ conn' = ExitNormally(conn)
    /\ pc' = "done"
    /\ UNCHANGED <<table, movies, writers, records, request, response, log, trace>>

Next == Connect \/ LoadWriters \/ TransformNext \/ LoadToEs \/ Close

Spec == Init /\ [][Next]_vars

\* main() up to the end of the row loop
NextTransform == Connect \/ LoadWriters \/ TransformNext

SpecRow == InitRow /\ [][NextTransform]_vars

TypeOK ==
    /\ conn \in {"none", "open", "closed"}
    /\ pc \in PcValues
    /\ Len(records) <= Len(movies)

----------------------------------------------------------------------------
(* Properties.                                                             *)

\* what the writers table says, independently of the directory built from it
TableIds == {table[j].id : j \in 1..Len(table)}
TableName(id) ==
    LET last == CHOOSE j \in 1..Len(table) :
                    table[j].id = id /\ \A h \in (j + 1)..Len(table) : table[h].id # id
    IN  table[last].name

\* the items of a row's writers array (none when the text is no array)
Entries(row) ==
    LET parsed == JsonLoads(row.writers)
    IN  IF parsed.ok /\ parsed.val.t = "list" THEN parsed.val.v ELSE << >>

HasId(entry) == entry.t = "dict" /\ "id" \in DOMAIN entry.v

\* the entry has an id and it is a key of the directory
IsKnown(entry) ==
    /\ HasId(entry)
    /\ entry.v["id"].t = "str"
    /\ entry.v["id"].v \in TableIds

HasUnknownWriter(row) ==
    \E i \in 1..Len(Entries(row)) :
        HasId(Entries(row)[i]) /\ ~IsKnown(Entries(row)[i])

Calls(name) == {i \in 1..Len(trace) : trace[i].call = name}

Terminated == pc \in {"done", "faulted"}

\* C1: in every terminal state of main(), on the success path and on every
\* fault path, the source connection is closed.
C1_ConnClosedAtEnd == Terminated => conn = "closed"

\* C2: a row with a writers entry whose id is not in the Writer Directory
\* never yields a document: handing it to _transform_row faults the run,
\* and the bulk indexing client is never invoked for that database.
C2_UnknownWriterFaults ==
    \A k \in 1..Len(movies) :
        HasUnknownWriter(movies[k]) =>
            /\ Len(records) < k
            /\ Len(trace) >= k + 1 => pc = "faulted"
            /\ Calls("load_to_es") = {}
            /\ request = << >>

\* C2 witness: the second row of a database has a known, an unknown and a
\* repeated writer id, and the run has faulted on it after one document
C2_Witness ==
    /\ pc = "faulted"
    /\ Len(movies) = 2
    /\ Len(records) = 1
    /\ Len(trace) = 3
    /\ HasUnknownWriter(movies[2])
    /\ \E i, j \in 1..Len(Entries(movies[2])) :
          /\ i < j
          /\ IsKnown(Entries(movies[2])[i])
          /\ Entries(movies[2])[j] = Entries(movies[2])[i]

\* C3: the directory is loaded once, before any row is transformed; the rows
\* are transformed once each, in extraction order, with that directory; the
\* bulk client is invoked once, after the last row, with one document per
\* row in extraction order; a run that completes has sent exactly one request.
C3_Phases ==
    /\ \A i \in 1..Len(trace) :
          /\ trace[i].call = "load_writers_names" <=> i = 1
          /\ trace[i].call = "_transform_row" =>
                /\ i - 1 \in 1..Len(movies)
                /\ trace[i].arg = <<movies[i - 1]>>
          /\ trace[i].call = "load_to_es" =>
                /\ i = Len(movies) + 2
                /\ Len(trace[i].arg) = Len(movies)
                /\ \A k \in 1..Len(movies) :
                      LET t == TransformRow(movies[k], LoadWritersNames(table))
                      IN  t.ok /\ trace[i].arg[k] = t.doc
    /\ pc \notin {"start", "load"} => writers = LoadWritersNames(table)
    /\ Len(request) = Cardinality(Calls("load_to_es"))
    /\ pc \in {"exit", "done"} =>
          /\ Len(trace) = Len(movies) + 2
          /\ Calls("load_to_es") = {Len(trace)}
          /\ Len(request) = 1

\* C3 witness: a completed run over two rows that give different documents
C3_Witness ==
    /\ pc = "done"
    /\ Len(records) = 2
    /\ records[1].writers # records[2].writers

\* the messages of the items of the response, absent errors as None
ItemErrors ==
    LET items == response[1].json["items"]
    IN  [i \in 1..Len(items) |-> Get(items[i]["index"], "error")]

HasItems ==
    /\ response # None
    /\ response[1].kind = "json"
    /\ "items" \in DOMAIN response[1].json

Unwrap(opts) == [i \in 1..Len(opts) |-> opts[i][1]]

\* C4 as stated: for a response with an items array, no fault is raised and
\* the log holds, in order, the error of every item whose error is non-null.
C4_LogsEveryNonNullError ==
    HasItems =>
        /\ pc \in {"exit", "done"}
        /\ log = Unwrap(SelectSeq(ItemErrors, LAMBDA e : e # None))

\* C4 amended: for a response with an items array, no fault is raised and
\* the log holds, in order, the error of every item whose error is non-null
\* and non-empty, and nothing else.
C4_LogsEveryTruthyError ==
    HasItems =>
        /\ pc \in {"exit", "done"}
        /\ log = Unwrap(SelectSeq(ItemErrors, LAMBDA e : e # None /\ e # Some(<< >>)))

\* C4 witness: three items, an error on the second only, and its message is
\* the one thing logged
C4_Witness ==
    /\ HasItems
    /\ pc = "done"
    /\ Len(ItemErrors) = 3
    /\ ItemErrors[1] = None /\ ItemErrors[2] = Some(<<"f">>) /\ ItemErrors[3] = None
    /\ log = << <<"f">> >>

\* the newline-terminated lines of a body
Lines(body) ==
    LET parts == Split(body, NL)
    IN  SubSeq(parts, 1, Len(parts) - 1)

EndsWithNewline(body) == body # << >> /\ body[Len(body)] = NL

IsActionLine(line, id) ==
    /\ Len(line) = 1
    /\ DOMAIN line[1] = {"json"}
    /\ DOMAIN line[1].json = {"index"}
    /\ DOMAIN line[1].json["index"] = {"_index", "_id"}
    /\ line[1].json["index"]["_index"] = IndexName
    /\ line[1].json["index"]["_id"] = id

IsDocumentLine(line, doc) ==
    /\ Len(line) = 1
    /\ DOMAIN line[1] = {"json"}
    /\ line[1].json = doc

LinesArePairs(body) ==
    /\ EndsWithNewline(body)
    /\ Len(Lines(body)) = 2 * Len(records)
    /\ \A k \in 1..Len(records) :
          /\ IsActionLine(Lines(body)[2 * k - 1], movies[k].id)
          /\ IsDocumentLine(Lines(body)[2 * k], records[k])
          /\ records[k].id = movies[k].id

\* C5 as stated: for every batch of N >= 0 documents the body is exactly 2N
\* newline-terminated lines, the action line of document k and then its JSON.
C5_BodyIsTwoLinesPerDocument ==
    \A r \in 1..Len(request) : LinesArePairs(request[r])

\* C5 amended: for every batch of N >= 1 documents the body is exactly 2N
\* newline-terminated lines, the action line of document k (with the id of
\* its source row) and then its JSON; for the empty batch the body is a
\* single newline, that is one empty line.
C5_BodyOfNonEmptyBatch ==
    \A r \in 1..Len(request) :
        IF records = << >>
        THEN request[r] = <<NL>> /\ Lines(request[r]) = << << >> >>
        ELSE LinesArePairs(request[r])

\* C5 witness: a body has been sent for a batch of two documents
C5_Witness == Len(request) = 1 /\ Len(records) = 2

\* the ids of a row's writers array, in array order (the row has a document)
SourceWriterIds(row) == [i \in 1..Len(Entries(row)) |-> Entries(row)[i].v["id"].v]

FirstIndex(xs, x) == CHOOSE i \in 1..Len(xs) : xs[i] = x /\ \A j \in 1..(i - 1) : xs[j] # x

\* C6: in every document, writers has no two entries with the same id and no
\* entry named 'N/A'; it holds exactly the row's writers whose name is not
\* 'N/A', in the order of their first occurrence in the row's array; and
\* writers_names is the list of their names, element by element.
C6_WritersDedupedInOrder ==
    \A k \in 1..Len(records) :
        LET doc == records[k]
            src == SourceWriterIds(movies[k])
            ids == [i \in 1..Len(doc.writers) |-> doc.writers[i].id]
        IN  /\ \A i, j \in 1..Len(ids) : i # j => ids[i] # ids[j]
            /\ \A i \in 1..Len(ids) :
                  /\ doc.writers[i].name # Sentinel
                  /\ doc.writers[i].name = TableName(ids[i])
            /\ {ids[i] : i \in 1..Len(ids)}
                 = {src[i] : i \in {j \in 1..Len(src) : TableName(src[j]) # Sentinel}}
            /\ \A i, j \in 1..Len(ids) :
                  i < j => FirstIndex(src, ids[i]) < FirstIndex(src, ids[j])
            /\ Len(doc.writers_names) = Len(doc.writers)
            /\ \A i \in 1..Len(ids) : doc.writers_names[i] = doc.writers[i].name

\* C6 witness: a row whose array repeats an id has a document with two writers
C6_Witness ==
    /\ Len(records) = 1
    /\ Len(SourceWriterIds(movies[1])) = 3
    /\ SourceWriterIds(movies[1])[1] = SourceWriterIds(movies[1])[3]
    /\ Len(records[1].writers) = 2

BothActorColumns(row) == row.actors_ids # None /\ row.actors_names # None

\* C7: for every row whose actors_ids and actors_names are both present and
\* split into the same number of elements, len(actors) = len(actors_names)
\* <= the number of split ids, and no retained name is 'N/A'.
C7_EqualLengthActors ==
    \A k \in 1..Len(records) :
        LET doc == records[k]
            row == movies[k]
        IN  (/\ BothActorColumns(row)
             /\ Len(Split(row.actors_ids[1], ",")) = Len(Split(row.actors_names[1], ",")))
            => /\ Len(doc.actors) = Len(doc.actors_names)
               /\ Len(doc.actors) <= Len(Split(row.actors_ids[1], ","))
               /\ \A i \in 1..Len(doc.actors) : doc.actors[i].name # Sentinel
               /\ \A i \in 1..Len(doc.actors_names) : doc.actors_names[i] # Sentinel

\* C7 witness: two ids and two names, one of them 'N/A', leave one actor
C7_Witness ==
    /\ Len(records) = 1
    /\ BothActorColumns(movies[1])
    /\ Len(Split(movies[1].actors_ids[1], ",")) = 2
    /\ Split(movies[1].actors_names[1], ",") = <<Sentinel, <<"B">> >>
    /\ Len(records[1].actors) = 1

\* the claims about the three scalar fields speak of the rows that have a
\* document; such a row has a text in imdb_rating and in director
DirectorParts(row) == Split(row.director[1], ",")

\* C8 as stated: in every document imdb_rating, description and director
\* are null if and only if the row's imdb_rating, plot and director is the
\* string 'N/A'; and the sentinel is never passed through: imdb_rating is
\* otherwise a float, description is never the string 'N/A', and no element
\* of director is the string 'N/A'.
C8_SentinelIffNull ==
    \A k \in 1..Len(records) :
        LET doc == records[k]
            row == movies[k]
        IN  /\ doc.imdb_rating = None <=> row.imdb_rating = Some(Sentinel)
            /\ doc.description = None <=> row.plot = Some(Sentinel)
            /\ doc.director = None <=> row.director = Some(Sentinel)
            /\ doc.description # Some(Sentinel)
            /\ doc.director # None =>
                  \A i \in 1..Len(doc.director[1]) : doc.director[1][i] # Sentinel

\* C8 amended: in every document imdb_rating is null iff the row's
\* imdb_rating is 'N/A' and otherwise its float value; description is null
\* iff the row's plot is 'N/A' or NULL, and otherwise the plot unchanged, so
\* never the string 'N/A'; director is null iff the row's director is
\* exactly 'N/A' and otherwise the list of its comma-separated elements,
\* each trimmed, so an element of the list is 'N/A' when the element of the
\* column at that place trims to 'N/A'.
C8_SentinelDecodedToNull ==
    \A k \in 1..Len(records) :
        LET doc == records[k]
            row == movies[k]
        IN  /\ row.imdb_rating # None /\ row.director # None
            /\ doc.imdb_rating = None <=> row.imdb_rating = Some(Sentinel)
            /\ row.imdb_rating # Some(Sentinel) =>
                  /\ ParseFloat(row.imdb_rating[1]).ok
                  /\ doc.imdb_rating = Some(ParseFloat(row.imdb_rating[1]).val)
            /\ doc.description = None <=> row.plot \in {Some(Sentinel), None}
            /\ row.plot # Some(Sentinel) => doc.description = row.plot
            /\ doc.description # Some(Sentinel)
            /\ doc.director = None <=> row.director = Some(Sentinel)
            /\ row.director # Some(Sentinel) =>
                  /\ Len(doc.director) = 1
                  /\ Len(doc.director[1]) = Len(DirectorParts(row))
                  /\ \A i \in 1..Len(DirectorParts(row)) :
                        doc.director[1][i] = Strip(DirectorParts(row)[i])

\* C8 witness: a row with imdb_rating 'N/A', a NULL plot and director
\* ' N/A' has a document with imdb_rating and description null and
\* director the list ['N/A']
C8_Witness ==
    /\ Len(records) = 1
    /\ movies[1].imdb_rating = Some(Sentinel)
    /\ movies[1].plot = None
    /\ movies[1].director = Some(<<" ">> \o Sentinel)
    /\ records[1].imdb_rating = None
    /\ records[1].description = None
    /\ records[1].director = Some(<<Sentinel>>)

\* C9: in every document genre is the comma-split of the row's genre with
\* all whitespace characters removed: no element holds a whitespace
\* character, and the elements are in source order, duplicates kept.
C9_GenreWithoutWhitespace ==
    \A k \in 1..Len(records) :
        LET genre == records[k].genre
            clean == SelectSeq(movies[k].genre[1], LAMBDA ch : ch \notin Whitespace)
        IN  /\ \A i \in 1..Len(genre) : \A j \in 1..Len(genre[i]) :
                  genre[i][j] \notin Whitespace
            /\ genre = Split(clean, ",")

\* C10: in every document actors_names is the list of the names of actors,
\* element by element, whatever the lengths of the two columns; and when
\* either column is null both lists are empty.
C10_ActorsAligned ==
    \A k \in 1..Len(records) :
        LET doc == records[k]
            row == movies[k]
        IN  /\ Len(doc.actors_names) = Len(doc.actors)
            /\ \A i \in 1..Len(doc.actors) : doc.actors_names[i] = doc.actors[i].name
            /\ ~BothActorColumns(row) => doc.actors = << >> /\ doc.actors_names = << >>

====
